---- MODULE Spec2Model ----
(***************************************************************************)
(* Call-setup state machine of the telephony client (src/src/Call.jsx,     *)
(* first Call component).  One record per client holds the React state and *)
(* refs of the component, the RTCPeerConnection objects it has created,    *)
(* the MediaStreams it has acquired and its suspended async functions.     *)
(*                                                                         *)
(* Browser semantics used by the model (W3C WebRTC 1.0):                   *)
(*  - operations on one connection run on its operations chain, in call    *)
(*    order; the model applies the effect of an operation when it is       *)
(*    called and resumes the awaiting function in a later step;            *)
(*  - a promise of a chained operation never settles once the connection   *)
(*    has been closed, so the functions awaiting it never resume;          *)
(*  - addIceCandidate rejects while remoteDescription is null;             *)
(*  - createOffer / createAnswer / setLocalDescription /                   *)
(*    setRemoteDescription reject in the wrong signaling state;            *)
(*  - setRemoteDescription of a description with media fires ontrack;      *)
(*  - a remote candidate the ICE agent already holds is accepted again.    *)
(* socket.io-client semantics: socket.emit on a disconnected socket puts   *)
(* the packet in the send buffer, which is flushed when the socket         *)
(* connects again; the server gives every connection a new socket.id.      *)
(***************************************************************************)
EXTENDS Integers, Sequences, FiniteSets, Bags, TLC

VARIABLES cl, net, out

vars == <<cl, net, out>>

\* Relay identifiers (socket.id values), ordered "A" < "B" < "C".
Peers == {"A", "B", "C"}

\* The client whose environment is left open in Spec.
Me == "A"

\* The identifiers the relay hands out: those of the peers, and the one a
\* client gets when its socket connects again.
SocketIds == Peers \cup {"D"}

\* The two clients of the closed, relayed system of PairSpec.
Pair == {"A", "B"}

\* Peer connections one client creates in a run.
MaxPC == 2

\* Candidates one connection gathers, and remote candidates it is handed.
MaxCand == 1

\* Times one candidate is delivered again after a connection holds it.
MaxDup == 1

\* Envelopes the relay forwards to one client in a run.
MaxInbound == 3

\* Entries in one 'users' roster message.
MaxRoster == 3

\* Times the socket of one client connects again in a run.
MaxReconnect == 1

\* useState('') of remoteId; also the null of the refs.
NoPeer == ""

Null == 0

\* The connection of a peer outside the model, in descriptions it sends.
Remote == "remote"

NoDesc == [type |-> "none", by |-> <<NoPeer, Null>>]

\* The srcObject of the remote audio element when it is null; otherwise it
\* is the stream of the connection that made the remote description.
NoRemoteStream == <<NoPeer, Null>>

Offer(c, k) == [type |-> "offer", by |-> <<c, k>>]

Answer(c, k) == [type |-> "answer", by |-> <<c, k>>]

Candidate(c, k, n) == [by |-> <<c, k>>, n |-> n]

Envelope(type, from, to, payload) ==
  [type |-> type, from |-> from, to |-> to, payload |-> payload]

\* A function suspended at an await: fn is the function, at the awaited
\* call, peer its toUserId / from argument, own the connection the
\* invocation created, pc the connection whose operation is awaited (Null
\* for getUserMedia), ok and val the outcome of the awaited call.
Task(fn, at, peer, own, k, ok, val) ==
  [fn |-> fn, at |-> at, peer |-> peer, own |-> own, pc |-> k, ok |-> ok,
   val |-> val]

\* The state of a client right after the component is constructed.
\* The socket events the mount effect of Call registers a listener for.
Events == {"connect", "users", "offer", "answer", "ice-candidate"}

InitClient ==
  [mounted |-> FALSE,
   listeners |-> [e \in Events |-> 0],
   pingIntervals |-> 0,
   remoteId |-> NoPeer,
   callStatus |-> "Ready to call",
   iceState |-> "",
   isCallerRef |-> FALSE,
   peerConnectionRef |-> Null,
   localStreamRef |-> Null,
   pcs |-> <<>>,
   streams |-> <<>>,
   tasks |-> EmptyBag,
   inbound |-> 0,
   localAudioSrc |-> Null,
   remoteAudioSrc |-> NoRemoteStream,
   playPending |-> 0,
   playTimers |-> 0,
   users |-> <<>>,
   myId |-> NoPeer,
   socket |-> [connected |-> FALSE, id |-> NoPeer, sendBuffer |-> <<>>,
               connects |-> 0]]

\* The elements of sequence q.
Range(q) == {q[i] : i \in 1..Len(q)}

\* Client c once its socket has connected and the roster of the other peers
\* in `others` has been received: the state every call starts from.
Mounted(c, others) ==
  [InitClient EXCEPT !.mounted = TRUE,
                     !.listeners = [e \in Events |-> 1],
                     !.pingIntervals = 1,
                     !.users = others,
                     !.myId = c,
                     !.socket = [connected |-> TRUE, id |-> c,
                                 sendBuffer |-> <<>>, connects |-> 1]]

\* No observable output yet.
NoOut == [ev |-> "", prompt |-> FALSE, emits |-> <<>>, was |-> ""]

\* The last step: the event handled, whether window.confirm was shown, and
\* the envelopes emitted on the socket; for a state change of a connection,
\* was is the ICE state the connection has left.
Out(ev, prompt, emits) ==
  [ev |-> ev, prompt |-> prompt, emits |-> emits, was |-> ""]

\* new RTCPeerConnection(ICE_SERVERS) with its callbacks and stats interval;
\* rid is the remoteId value of the render whose closure builds the callbacks.
createPeerConnection(rid) ==
  [open |-> TRUE,
   statsInterval |-> TRUE,
   remoteId |-> rid,
   signalingState |-> "stable",
   localDescription |-> NoDesc,
   remoteDescription |-> NoDesc,
   tracks |-> {},
   candidates |-> <<>>,
   gathered |-> 0,
   iceConnectionState |-> "new"]

\* A closed connection: it fires no callback and accepts no operation, and
\* nothing of its former state can be observed.
ClosedPC ==
  [open |-> FALSE,
   statsInterval |-> FALSE,
   remoteId |-> NoPeer,
   signalingState |-> "closed",
   localDescription |-> NoDesc,
   remoteDescription |-> NoDesc,
   tracks |-> {},
   candidates |-> <<>>,
   gathered |-> 0,
   iceConnectionState |-> "closed"]

\* The suspended functions that do not await an operation of connection k.
NotAwaiting(tasks, k) ==
  [t \in {x \in DOMAIN tasks : x.pc # k} |-> tasks[t]]

\* Suspend a function / take a suspended function off the bag.
Suspend(tasks, t) == tasks (+) SetToBag({t})

Without(tasks, t) == tasks (-) SetToBag({t})

\* clearInterval(pc._statsInterval) without pc.close().
closePCOnlyClearsInterval(s, k) ==
  [s EXCEPT !.pcs[k].statsInterval = FALSE]

\* clearInterval(pc._statsInterval); pc.close() on connection k.  The
\* promises of k's pending operations are abandoned.
closePC(s, k) ==
  [s EXCEPT !.pcs[k] = ClosedPC,
            !.tasks = NotAwaiting(@, k)]

\* The mount effect: the socket listeners are registered and the ping
\* interval is started.
mount(s) ==
  [s EXCEPT !.mounted = TRUE,
            !.listeners = [e \in Events |-> @[e] + 1],
            !.pingIntervals = @ + 1]

\* The cleanup without clearInterval(pingInterval).
unmountKeepsPing(s) ==
  LET s1 == [s EXCEPT !.mounted = FALSE,
                      !.listeners =
                        [e \in Events |-> IF @[e] > 0 THEN @[e] - 1 ELSE 0]]
      s2 == IF s1.peerConnectionRef # Null
            THEN closePC(s1, s1.peerConnectionRef)
            ELSE s1
  IN IF s2.localStreamRef # Null
     THEN [s2 EXCEPT !.streams[s2.localStreamRef] = FALSE]
     ELSE s2

\* The cleanup of the mount effect: socket.off for every listener,
\* clearInterval(pingInterval), the connection closed and the local tracks
\* stopped (the refs keep their values).
unmount(s) ==
  LET s1 == [s EXCEPT !.mounted = FALSE,
                      !.listeners =
                        [e \in Events |-> IF @[e] > 0 THEN @[e] - 1 ELSE 0],
                      !.pingIntervals = IF @ > 0 THEN @ - 1 ELSE 0]
      s2 == IF s1.peerConnectionRef # Null
            THEN closePC(s1, s1.peerConnectionRef)
            ELSE s1
  IN IF s2.localStreamRef # Null
     THEN [s2 EXCEPT !.streams[s2.localStreamRef] = FALSE]
     ELSE s2

\* endCall() without the reset of isCallerRef.
endCallKeepsRole(s) ==
  LET s1 == IF s.peerConnectionRef # Null
            THEN [closePC(s, s.peerConnectionRef)
                    EXCEPT !.peerConnectionRef = Null]
            ELSE s
      s2 == IF s1.localStreamRef # Null
            THEN [s1 EXCEPT !.streams[s1.localStreamRef] = FALSE,
                            !.localStreamRef = Null]
            ELSE s1
  IN [s2 EXCEPT !.localAudioSrc = Null,
                !.remoteAudioSrc = NoRemoteStream,
                !.remoteId = NoPeer,
                !.callStatus = "Ready to call",
                !.iceState = ""]

\* endCall()
endCall(s) ==
  LET s1 == IF s.peerConnectionRef # Null
            THEN [closePC(s, s.peerConnectionRef)
                    EXCEPT !.peerConnectionRef = Null]
            ELSE s
      s2 == IF s1.localStreamRef # Null
            THEN [s1 EXCEPT !.streams[s1.localStreamRef] = FALSE,
                            !.localStreamRef = Null]
            ELSE s1
  IN [s2 EXCEPT !.localAudioSrc = Null,
                !.remoteAudioSrc = NoRemoteStream,
                !.remoteId = NoPeer,
                !.callStatus = "Ready to call",
                !.iceState = "",
                !.isCallerRef = FALSE]

\* The catch blocks without their endCall().
catchErrorOnlyStatus(s) == [s EXCEPT !.callStatus = "Error"]

\* The catch blocks of startCall and handleIncomingCall.
catchError(s) == endCall([s EXCEPT !.callStatus = "Error"])

\* startCall(toUserId) up to its first await.  pcOK: the RTCPeerConnection
\* constructor did not throw.
startCall(s, toUserId, pcOK) ==
  LET s1 == [s EXCEPT !.remoteId = toUserId,
                      !.callStatus = "Calling...",
                      !.isCallerRef = TRUE]
      s2 == IF s1.peerConnectionRef # Null
            THEN closePC(s1, s1.peerConnectionRef)
            ELSE s1
  IN IF pcOK
     THEN [s2 EXCEPT !.pcs = Append(@, createPeerConnection(s.remoteId)),
                     !.peerConnectionRef = Len(s2.pcs) + 1,
                     !.tasks = Suspend(@, Task("startCall", "getUserMedia",
                                              toUserId, Len(s2.pcs) + 1,
                                              Null, TRUE, NoDesc))]
     ELSE catchError([s2 EXCEPT !.peerConnectionRef = Null])

\* RTCPeerConnection.createOffer: valid in stable and have-local-offer.
canCreateOffer(p) ==
  p.open /\ p.signalingState \in {"stable", "have-local-offer"}

\* RTCPeerConnection.createAnswer: valid with a remote offer to answer.
canCreateAnswer(p) ==
  p.open /\ p.signalingState = "have-remote-offer"

\* RTCPeerConnection.setLocalDescription(d) on connection k of client c: d
\* must be the description k itself created last, in a matching state.
canSetLocalDescription(p, c, k, d) ==
  /\ p.open
  /\ d.by = <<c, k>>
  /\ d.type = "offer" => p.signalingState \in {"stable", "have-local-offer"}
  /\ d.type = "answer" => p.signalingState = "have-remote-offer"

setLocalDescription(p, d) ==
  [p EXCEPT !.localDescription = d,
            !.signalingState = IF d.type = "offer" THEN "have-local-offer"
                               ELSE "stable"]

\* RTCPeerConnection.setRemoteDescription(d): an answer needs a local offer.
canSetRemoteDescription(p, d) ==
  /\ p.open
  /\ d.type = "offer" => p.signalingState \in {"stable", "have-remote-offer"}
  /\ d.type = "answer" => p.signalingState = "have-local-offer"

setRemoteDescription(p, d) ==
  [p EXCEPT !.remoteDescription = d,
            !.signalingState = IF d.type = "offer" THEN "have-remote-offer"
                               ELSE "stable"]

\* addIceCandidate accepted only once both descriptions are set.
canAddIceCandidateWhenStable(p) ==
  p.open /\ p.remoteDescription # NoDesc /\ p.localDescription # NoDesc

\* RTCPeerConnection.addIceCandidate: rejects while remoteDescription is null.
canAddIceCandidate(p) ==
  p.open /\ p.remoteDescription # NoDesc

\* pc.ontrack for the remote stream of description d: the remote audio
\* element gets the stream and playRemoteAudio() calls play() on it.
ontrack(s, d) ==
  [s EXCEPT !.remoteAudioSrc = d.by,
            !.playPending = @ + 1]

\* The promise of a play() of playRemoteAudio is rejected:
\* setTimeout(playRemoteAudio, 500).
playRejected(s) ==
  [s EXCEPT !.playPending = @ - 1,
            !.playTimers = @ + 1]

\* The promise of a play() of playRemoteAudio is fulfilled: a log line.
playResolved(s) ==
  [s EXCEPT !.playPending = @ - 1]

\* A timeout of playRemoteAudio fires: play() is called again.
playRemoteAudio(s) ==
  [s EXCEPT !.playTimers = @ - 1,
            !.playPending = @ + 1]

\* handleIncomingCall(from, offer) up to its first await.  The function is
\* the one of the mount render (the socket listeners are bound once), so the
\* callbacks of its connection see the initial remoteId.
handleIncomingCall(s, from, offer, pcOK) ==
  LET s1 == [s EXCEPT !.callStatus = "Connecting...",
                      !.isCallerRef = FALSE]
      k == Len(s.pcs) + 1
      pc0 == createPeerConnection(InitClient.remoteId)
      ok == canSetRemoteDescription(pc0, offer)
      s2 == IF ok THEN ontrack(s1, offer) ELSE s1
  IN IF pcOK
     THEN [s2 EXCEPT !.pcs = Append(@, IF ok THEN setRemoteDescription(pc0, offer)
                                       ELSE pc0),
                     !.peerConnectionRef = k,
                     !.tasks = Suspend(@, Task("handleIncomingCall",
                                              "setRemoteDescription",
                                              from, k, k, ok, NoDesc))]
     ELSE catchError([s1 EXCEPT !.peerConnectionRef = Null])

\* handleOffer without setRemoteId(from).
handleOfferKeepsRemoteId(s, from, offer, accept, pcOK) ==
  LET s1 == [s EXCEPT !.callStatus = "Incoming call..."]
  IN IF accept THEN handleIncomingCall(s1, from, offer, pcOK) ELSE s1

\* handleOffer({from, offer}); accept is the answer to window.confirm.
handleOffer(s, from, offer, accept, pcOK) ==
  LET s1 == [s EXCEPT !.remoteId = from,
                      !.callStatus = "Incoming call..."]
  IN IF accept THEN handleIncomingCall(s1, from, offer, pcOK) ELSE s1

\* handleOffer always asks the user.
handleOfferPrompts(s, from) == TRUE

\* handleAnswer({answer}) up to its await.  A rejected setRemoteDescription
\* is only logged, so nothing is left to resume in that case.
handleAnswer(s, answer) ==
  LET k == s.peerConnectionRef
  IN IF k # Null /\ canSetRemoteDescription(s.pcs[k], answer)
     THEN [ontrack(s, answer)
             EXCEPT !.pcs[k] = setRemoteDescription(@, answer),
                    !.tasks = Suspend(@, Task("handleAnswer",
                                             "setRemoteDescription",
                                             NoPeer, k, k, TRUE, NoDesc))]
     ELSE s

\* handleIceCandidate without the test of peerConnectionRef.current, the
\* failure handled as startCall handles its own.
handleIceCandidateUnguarded(s, candidate) ==
  LET k == s.peerConnectionRef
  IN IF k = Null THEN catchError(s)
     ELSE IF canAddIceCandidate(s.pcs[k])
     THEN [s EXCEPT !.pcs[k].candidates = Append(@, candidate)]
     ELSE s

\* handleIceCandidate({candidate}); what follows its await only logs.
handleIceCandidate(s, candidate) ==
  LET k == s.peerConnectionRef
  IN IF k # Null /\ canAddIceCandidate(s.pcs[k])
     THEN [s EXCEPT !.pcs[k].candidates = Append(@, candidate)]
     ELSE s

\* handleUsers(userList) without the filter.
handleUsersUnfiltered(s, userList) == [s EXCEPT !.users = userList]

\* handleUsers(userList)
handleUsers(s, userList) ==
  [s EXCEPT !.users = SelectSeq(userList, LAMBDA id : id # s.socket.id)]

\* The identifier the relay gives client c for its n-th connection.
NextSocketId(c, n) == IF n = 1 THEN c ELSE "D"

\* The socket connects: it gets its identifier and its send buffer is
\* flushed.  Only the listener of socket.js runs, which logs.
connect(c, s) ==
  [s EXCEPT !.socket = [connected |-> TRUE,
                        id |-> NextSocketId(c, s.socket.connects + 1),
                        sendBuffer |-> <<>>,
                        connects |-> s.socket.connects + 1]]

\* The socket connects: it gets its identifier and its send buffer is
\* flushed; handleConnect() keeps the identifier in myId.
handleConnect(c, s) ==
  LET id == NextSocketId(c, s.socket.connects + 1)
  IN [s EXCEPT !.myId = id,
               !.socket = [connected |-> TRUE, id |-> id,
                           sendBuffer |-> <<>>,
                           connects |-> s.socket.connects + 1]]

\* The socket loses its connection.
disconnect(s) ==
  [s EXCEPT !.socket.connected = FALSE, !.socket.id = NoPeer]

\* socket.emit(...) of the envelopes in emits: a disconnected socket keeps
\* them in its send buffer.
socketEmit(s, emits) ==
  IF s.socket.connected THEN s
  ELSE [s EXCEPT !.socket.sendBuffer = @ \o emits]

\* The envelopes socket.emit puts on the wire at once.
sent(s, emits) == IF s.socket.connected THEN emits ELSE <<>>

\* The dispatch with a rejected addIceCandidate ending the call.
receiveCandidateErrorEnds(s, e, accept, pcOK) ==
  CASE e.type = "offer" -> handleOffer(s, e.from, e.payload, accept, pcOK)
    [] e.type = "answer" -> handleAnswer(s, e.payload)
    [] e.type = "ice-candidate" ->
         IF s.peerConnectionRef # Null
            /\ ~canAddIceCandidate(s.pcs[s.peerConnectionRef])
         THEN catchError(s)
         ELSE handleIceCandidate(s, e.payload)

\* The socket listener that an inbound envelope e is dispatched to.
receive(s, e, accept, pcOK) ==
  CASE e.type = "offer" -> handleOffer(s, e.from, e.payload, accept, pcOK)
    [] e.type = "answer" -> handleAnswer(s, e.payload)
    [] e.type = "ice-candidate" -> handleIceCandidate(s, e.payload)

\* The continuation after getUserMedia without `localStreamRef.current =
\* stream`.
afterGetUserMediaDropsStream(c, s, t, gumOK) ==
  IF ~gumOK THEN catchError(s)
  ELSE
    LET m == Len(s.streams) + 1
        s1 == [s EXCEPT !.streams = Append(@, TRUE),
                        !.localAudioSrc = m]
        k == s1.peerConnectionRef
    IN IF k = Null \/ ~s1.pcs[k].open THEN catchError(s1)
       ELSE
         LET s2 == [s1 EXCEPT !.pcs[k].tracks = @ \cup {m}]
             isCaller == t.fn = "startCall"
             ok == IF isCaller THEN canCreateOffer(s2.pcs[k])
                   ELSE canCreateAnswer(s2.pcs[k])
             val == IF ~ok THEN NoDesc
                    ELSE IF isCaller THEN Offer(c, k) ELSE Answer(c, k)
         IN [s2 EXCEPT !.tasks = Suspend(@, Task(t.fn,
                              IF isCaller THEN "createOffer" ELSE "createAnswer",
                              t.peer, t.own, k, ok, val))]

\* startCall / handleIncomingCall resumed after `await getUserMedia(...)`:
\* getUserMedia has given the stream to the local audio element; add the
\* tracks to the connection now in peerConnectionRef, keep the
\* stream, and call createOffer / createAnswer on that connection.
afterGetUserMedia(c, s, t, gumOK) ==
  IF ~gumOK THEN catchError(s)
  ELSE
    LET m == Len(s.streams) + 1
        s1 == [s EXCEPT !.streams = Append(@, TRUE),
                        !.localAudioSrc = m]
        k == s1.peerConnectionRef
    IN IF k = Null \/ ~s1.pcs[k].open THEN catchError(s1)
       ELSE
         LET s2 == [s1 EXCEPT !.pcs[k].tracks = @ \cup {m},
                              !.localStreamRef = m]
             isCaller == t.fn = "startCall"
             ok == IF isCaller THEN canCreateOffer(s2.pcs[k])
                   ELSE canCreateAnswer(s2.pcs[k])
             val == IF ~ok THEN NoDesc
                    ELSE IF isCaller THEN Offer(c, k) ELSE Answer(c, k)
         IN [s2 EXCEPT !.tasks = Suspend(@, Task(t.fn,
                              IF isCaller THEN "createOffer" ELSE "createAnswer",
                              t.peer, t.own, k, ok, val))]

\* The continuation after createOffer / createAnswer going on to the emit
\* without calling setLocalDescription.
afterCreateSkipsSetLocal(c, s, t) ==
  LET k == s.peerConnectionRef
  IN IF ~t.ok \/ k = Null \/ ~s.pcs[k].open THEN catchError(s)
     ELSE [s EXCEPT !.tasks = Suspend(@, Task(t.fn, "setLocalDescription",
                                             t.peer, t.own, k, TRUE, t.val))]

\* Resumed after `await createOffer()` / `await createAnswer()`: call
\* setLocalDescription on the connection now in peerConnectionRef.
afterCreate(c, s, t) ==
  LET k == s.peerConnectionRef
  IN IF ~t.ok \/ k = Null \/ ~s.pcs[k].open THEN catchError(s)
     ELSE
       LET ok == canSetLocalDescription(s.pcs[k], c, k, t.val)
           s1 == IF ok THEN [s EXCEPT !.pcs[k] = setLocalDescription(@, t.val)]
                 ELSE s
       IN [s1 EXCEPT !.tasks = Suspend(@, Task(t.fn, "setLocalDescription",
                                              t.peer, t.own, k, ok, t.val))]

\* Resumed after `await setLocalDescription(...)`: the envelope is emitted
\* next; handleIncomingCall then sets the status.
afterSetLocalDescription(s, t) ==
  IF ~t.ok THEN catchError(s)
  ELSE IF t.fn = "handleIncomingCall" THEN [s EXCEPT !.callStatus = "Connected"]
  ELSE s

\* The envelope emitted after `await setLocalDescription(...)`.
emitAfterSetLocalDescription(c, t) ==
  IF ~t.ok THEN <<>>
  ELSE <<Envelope(IF t.fn = "startCall" THEN "offer" ELSE "answer",
                  c, t.peer, t.val)>>

\* Resumed after `await setRemoteDescription(...)`.
afterSetRemoteDescription(s, t) ==
  IF t.fn = "handleAnswer"
  THEN IF t.ok THEN [s EXCEPT !.callStatus = "Connected"] ELSE s
  ELSE IF ~t.ok THEN catchError(s)
  ELSE [s EXCEPT !.tasks = Suspend(@, Task(t.fn, "getUserMedia", t.peer,
                                          t.own, Null, TRUE, NoDesc))]

\* The continuation of suspended function t.
resume(c, s, t, gumOK) ==
  CASE t.at = "getUserMedia" -> afterGetUserMedia(c, s, t, gumOK)
    [] t.at \in {"createOffer", "createAnswer"} -> afterCreate(c, s, t)
    [] t.at = "setLocalDescription" -> afterSetLocalDescription(s, t)
    [] t.at = "setRemoteDescription" -> afterSetRemoteDescription(s, t)

\* pc.onicecandidate of connection k for a gathered candidate.
onicecandidate(c, s, k) ==
  IF s.pcs[k].remoteId # NoPeer
  THEN <<Envelope("ice-candidate", c, s.pcs[k].remoteId,
                  Candidate(c, k, s.pcs[k].gathered + 1))>>
  ELSE <<>>

\* pc.oniceconnectionstatechange without the endCall() of 'failed'.
oniceconnectionstatechangeKeepsCall(s, state) ==
  LET s1 == [s EXCEPT !.iceState = state]
  IN CASE state \in {"connected", "completed"} ->
            [s1 EXCEPT !.callStatus = "Connected"]
       [] state = "disconnected" ->
            [s1 EXCEPT !.callStatus = "Disconnected - Reconnecting..."]
       [] state = "failed" ->
            [s1 EXCEPT !.callStatus = "Connection Failed"]
       [] OTHER -> s1

\* pc.oniceconnectionstatechange of a connection whose state became `state`.
oniceconnectionstatechange(s, state) ==
  LET s1 == [s EXCEPT !.iceState = state]
  IN CASE state \in {"connected", "completed"} ->
            [s1 EXCEPT !.callStatus = "Connected"]
       [] state = "disconnected" ->
            [s1 EXCEPT !.callStatus = "Disconnected - Reconnecting..."]
       [] state = "failed" ->
            endCall([s1 EXCEPT !.callStatus = "Connection Failed"])
       [] OTHER -> s1

\* The ICE agent of connection p can pair candidates: it was handed a
\* remote candidate, or the peer was sent one of p's own.  (The descriptions
\* carry none: they are emitted as createOffer / createAnswer return them.)
HasCandidatePair(p) ==
  p.candidates # <<>> \/ (p.gathered > 0 /\ p.remoteId # NoPeer)

\* The transitions of RTCIceConnectionState the ICE agent reports for an
\* open connection p that has both descriptions.
IceTransition(p, to) ==
  \/ /\ p.iceConnectionState \in {"new", "disconnected"}
     /\ to = "connected"
     /\ HasCandidatePair(p)
  \/ p.iceConnectionState = "connected" /\ to = "disconnected"
  \/ p.iceConnectionState \in {"new", "disconnected"} /\ to = "failed"

\* The relay forwards the emitted envelopes to the queues of their
\* recipients; envelopes to identifiers without a client go nowhere.
forward(n, emits) ==
  IF emits # <<>> /\ emits[1].to \in DOMAIN n
  THEN [n EXCEPT ![emits[1].to] = Append(@, emits[1])]
  ELSE n

\* The relay forwards a flushed send buffer, oldest envelope first.
RECURSIVE forwardAll(_, _)
forwardAll(n, buffer) ==
  IF buffer = <<>> THEN n
  ELSE forwardAll(forward(n, <<Head(buffer)>>), Tail(buffer))

Init ==
  /\ cl = [c \in {Me} |-> Mounted(c, <<"B", "C">>)]
  /\ net = [c \in {Me} |-> <<>>]
  /\ out = NoOut

\* The user clicks the call button of user p, one of the displayed users;
\* the button is disabled while remoteId = p.
StartCall(c, p) ==
  /\ c \in DOMAIN cl
  /\ p # c
  /\ p \in Range(cl[c].users)
  /\ cl[c].remoteId # p
  /\ Len(cl[c].pcs) < MaxPC
  /\ \E pcOK \in BOOLEAN :
       cl' = [cl EXCEPT ![c] = startCall(@, p, pcOK)]
  /\ out' = Out("startCall", FALSE, <<>>)
  /\ UNCHANGED net

\* The user clicks End Call, rendered while remoteId is not empty.
EndCall(c) ==
  /\ c \in DOMAIN cl
  /\ cl[c].remoteId # NoPeer
  /\ cl' = [cl EXCEPT ![c] = endCall(@)]
  /\ out' = Out("endCall", FALSE, <<>>)
  /\ UNCHANGED net

\* The awaited promise of suspended function t settles.
ResumeTask(c, t) ==
  /\ c \in DOMAIN cl
  /\ BagIn(t, cl[c].tasks)
  /\ LET s == [cl[c] EXCEPT !.tasks = Without(@, t)]
         emits == IF t.at = "setLocalDescription"
                  THEN emitAfterSetLocalDescription(c, t) ELSE <<>>
     IN /\ t.pc # Null => cl[c].pcs[t.pc].open
        /\ \E gumOK \in (IF t.at = "getUserMedia" THEN BOOLEAN ELSE {TRUE}) :
             cl' = [cl EXCEPT ![c] = resume(c, socketEmit(s, emits), t, gumOK)]
        /\ out' = Out("resume", FALSE, emits)
        /\ net' = forward(net, sent(s, emits))

Resume(c) ==
  /\ c \in DOMAIN cl
  /\ \E t \in DOMAIN cl[c].tasks : ResumeTask(c, t)

\* Connection k gathers a local candidate and fires onicecandidate.
OnIceCandidate(c, k) ==
  /\ c \in DOMAIN cl
  /\ k \in 1..Len(cl[c].pcs)
  /\ cl[c].pcs[k].open
  /\ cl[c].pcs[k].localDescription # NoDesc
  /\ cl[c].pcs[k].gathered < MaxCand
  /\ LET emits == onicecandidate(c, cl[c], k)
     IN /\ cl' = [cl EXCEPT ![c] = [socketEmit(@, emits)
                                      EXCEPT !.pcs[k].gathered = @ + 1]]
        /\ out' = Out("icecandidate", FALSE, emits)
        /\ net' = forward(net, sent(cl[c], emits))

\* A state change whose handler also lets go of the local stream.
IceConnectionStateChangeDropsStream(c, k, state) ==
  /\ c \in DOMAIN cl
  /\ k \in 1..Len(cl[c].pcs)
  /\ cl[c].pcs[k].open
  /\ cl[c].pcs[k].localDescription # NoDesc
  /\ cl[c].pcs[k].remoteDescription # NoDesc
  /\ IceTransition(cl[c].pcs[k], state)
  /\ cl' = [cl EXCEPT ![c] =
              [oniceconnectionstatechange(
                 [@ EXCEPT !.pcs[k].iceConnectionState = state], state)
                 EXCEPT !.localStreamRef = Null]]
  /\ out' = [Out("iceconnectionstatechange", FALSE, <<>>)
               EXCEPT !.was = cl[c].pcs[k].iceConnectionState]
  /\ UNCHANGED net

\* The ICE agent of connection k reports a new connection state.
IceConnectionStateChange(c, k, state) ==
  /\ c \in DOMAIN cl
  /\ k \in 1..Len(cl[c].pcs)
  /\ cl[c].pcs[k].open
  /\ cl[c].pcs[k].localDescription # NoDesc
  /\ cl[c].pcs[k].remoteDescription # NoDesc
  /\ IceTransition(cl[c].pcs[k], state)
  /\ cl' = [cl EXCEPT ![c] =
              oniceconnectionstatechange(
                [@ EXCEPT !.pcs[k].iceConnectionState = state], state)]
  /\ out' = [Out("iceconnectionstatechange", FALSE, <<>>)
               EXCEPT !.was = cl[c].pcs[k].iceConnectionState]
  /\ UNCHANGED net

\* Envelope e reaches the socket listeners of client c; accept is the
\* user's answer to the prompt of an offer.
Receive(c, e, accept) ==
  /\ c \in DOMAIN cl
  /\ cl[c].socket.connected
  /\ cl[c].inbound < MaxInbound
  /\ accept => e.type = "offer" /\ Len(cl[c].pcs) < MaxPC
  /\ \E pcOK \in (IF accept THEN BOOLEAN ELSE {TRUE}) :
       cl' = [cl EXCEPT ![c] = receive([@ EXCEPT !.inbound = @ + 1],
                                       e, accept, pcOK)]
  /\ out' = Out(e.type, e.type = "offer" /\ handleOfferPrompts(cl[c], e.from),
                <<>>)

\* Any other peer may have any envelope forwarded to client c.
EnvOffer(c, from, accept) ==
  /\ from # c
  /\ Receive(c, Envelope("offer", from, c, Offer(Remote, 1)), accept)
  /\ UNCHANGED net

EnvAnswer(c, from) ==
  /\ from # c
  /\ Receive(c, Envelope("answer", from, c, Answer(Remote, 1)), FALSE)
  /\ UNCHANGED net

EnvCandidate(c, from) ==
  /\ from # c
  /\ c \in DOMAIN cl
  /\ LET k == cl[c].peerConnectionRef
         held == IF k = Null THEN <<>> ELSE cl[c].pcs[k].candidates
     IN /\ Len(held) < MaxCand + MaxDup
        /\ Len(held) >= MaxCand => Candidate(from, 1, 1) \in Range(held)
  /\ Receive(c, Envelope("ice-candidate", from, c, Candidate(from, 1, 1)),
             FALSE)
  /\ UNCHANGED net

\* The peer `from` trickles its n-th candidate to client c.
EnvCandidateSeq(c, from, n) ==
  /\ from # c
  /\ c \in DOMAIN cl
  /\ LET k == cl[c].peerConnectionRef
     IN k # Null => Len(cl[c].pcs[k].candidates) < MaxCand + MaxDup
  /\ Receive(c, Envelope("ice-candidate", from, c, Candidate(from, 1, n)),
             FALSE)
  /\ UNCHANGED net

\* The relay delivers the oldest envelope queued for client c.
Deliver(c, accept) ==
  /\ c \in DOMAIN cl
  /\ net[c] # <<>>
  /\ Receive(c, Head(net[c]), accept)
  /\ net' = [net EXCEPT ![c] = Tail(@)]

\* The stats interval of connection k ticks: with the connection
\* 'connected' it reads the statistics into the debug panel, and it never
\* touches the call.
StatsTick(c, k) ==
  /\ c \in DOMAIN cl
  /\ k \in 1..Len(cl[c].pcs)
  /\ cl[c].pcs[k].statsInterval
  /\ out' = Out("statsInterval", FALSE, <<>>)
  /\ UNCHANGED <<cl, net>>

\* The ping interval ticks: 'ping' is emitted only on a connected socket.
PingTick(c) ==
  /\ c \in DOMAIN cl
  /\ out' = Out("pingInterval", FALSE,
                IF cl[c].socket.connected
                THEN <<Envelope("ping", c, NoPeer, NoDesc)>> ELSE <<>>)
  /\ UNCHANGED <<cl, net>>

\* A play() promise of the remote audio element settles.  An element
\* without a source neither plays nor fails: its promise stays pending.
PlaySettle(c, ok) ==
  /\ c \in DOMAIN cl
  /\ cl[c].playPending > 0
  /\ cl[c].remoteAudioSrc # NoRemoteStream
  /\ cl' = [cl EXCEPT ![c] = IF ok THEN playResolved(@) ELSE playRejected(@)]
  /\ out' = Out("play", FALSE, <<>>)
  /\ UNCHANGED net

\* A retry timeout of playRemoteAudio fires.
PlayRetry(c) ==
  /\ c \in DOMAIN cl
  /\ cl[c].playTimers > 0
  /\ cl' = [cl EXCEPT ![c] = playRemoteAudio(@)]
  /\ out' = Out("playRemoteAudio", FALSE, <<>>)
  /\ UNCHANGED net

\* The mount effect of Call runs (on the first mount and again after the
\* cleanup that React.StrictMode runs in between; state and refs are kept).
Mount(c) ==
  /\ c \in DOMAIN cl
  /\ ~cl[c].mounted
  /\ cl' = [cl EXCEPT ![c] = mount(@)]
  /\ out' = Out("mount", FALSE, <<>>)
  /\ UNCHANGED net

\* The cleanup of the mount effect runs.
Unmount(c) ==
  /\ c \in DOMAIN cl
  /\ cl[c].mounted
  /\ cl' = [cl EXCEPT ![c] = unmount(@)]
  /\ out' = Out("unmount", FALSE, <<>>)
  /\ UNCHANGED net

\* The socket of client c loses its connection to the relay.
SocketDisconnect(c) ==
  /\ c \in DOMAIN cl
  /\ cl[c].socket.connected
  /\ cl' = [cl EXCEPT ![c] = disconnect(@)]
  /\ out' = Out("disconnect", FALSE, <<>>)
  /\ UNCHANGED net

\* The socket of client c connects (again); handleConnect runs if it is
\* registered.
SocketConnect(c) ==
  /\ c \in DOMAIN cl
  /\ ~cl[c].socket.connected
  /\ cl[c].socket.connects < MaxReconnect + 1
  /\ cl' = [cl EXCEPT ![c] = IF @.listeners["connect"] > 0
                             THEN handleConnect(c, @)
                             ELSE connect(c, @)]
  /\ out' = Out("connect", FALSE, <<>>)
  /\ net' = forwardAll(net, cl[c].socket.sendBuffer)

\* The roster messages the relay may send: any list of identifiers.
Rosters ==
  UNION {[1..n -> SocketIds] : n \in 0..MaxRoster}

\* A 'users' roster message reaches client c.
Users(c, userList) ==
  /\ c \in DOMAIN cl
  /\ cl[c].socket.connected
  /\ cl[c].listeners["users"] > 0
  /\ cl' = [cl EXCEPT ![c] = handleUsers(@, userList)]
  /\ out' = Out("users", FALSE, <<>>)
  /\ UNCHANGED net

\* The connection states the ICE agent reports in the model.
IceStates == {"connected", "disconnected", "failed"}

Next ==
  \/ \E c \in Peers, p \in Peers : StartCall(c, p)
  \/ \E c \in Peers : EndCall(c)
  \/ \E c \in Peers : Resume(c)
  \/ \E c \in Peers, k \in 1..MaxPC : OnIceCandidate(c, k)
  \/ \E c \in Peers, k \in 1..MaxPC, state \in IceStates :
       IceConnectionStateChange(c, k, state)
  \/ \E c \in Peers, from \in Peers, accept \in BOOLEAN :
       EnvOffer(c, from, accept)
  \/ \E c \in Peers, from \in Peers : EnvAnswer(c, from)
  \/ \E c \in Peers, from \in Peers : EnvCandidate(c, from)

Spec == Init /\ [][Next]_vars

\* Two clients and the relay between them; nobody else sends anything, and
\* the users only call each other.
PairInit ==
  /\ cl = [c \in Pair |-> Mounted(c, IF c = "A" THEN <<"B">> ELSE <<"A">>)]
  /\ net = [c \in Pair |-> <<>>]
  /\ out = NoOut

PairNext ==
  \/ \E c \in Pair, p \in Pair : StartCall(c, p)
  \/ \E c \in Pair : EndCall(c)
  \/ \E c \in Pair : Resume(c)
  \/ \E c \in Pair, k \in 1..MaxPC : OnIceCandidate(c, k)
  \/ \E c \in Pair, k \in 1..MaxPC, state \in IceStates :
       IceConnectionStateChange(c, k, state)
  \/ \E c \in Pair, accept \in BOOLEAN : Deliver(c, accept)

PairSpec == PairInit /\ [][PairNext]_vars

\* The client of Spec with the timers of the component running; the
\* promises its functions await settle, and the timers keep ticking.
LiveNext ==
  \/ Next
  \/ \E c \in Peers, k \in 1..MaxPC : StatsTick(c, k)

LiveSpec ==
  /\ Init
  /\ [][LiveNext]_vars
  /\ WF_vars(\E c \in Peers : Resume(c))
  /\ WF_vars(\E c \in Peers, k \in 1..MaxPC : StatsTick(c, k))

\* The client of Spec with a peer that trickles several candidates.
TrickleNext ==
  \/ \E c \in Peers, p \in Peers : StartCall(c, p)
  \/ \E c \in Peers : EndCall(c)
  \/ \E c \in Peers : Resume(c)
  \/ \E c \in Peers, from \in Peers, accept \in BOOLEAN :
       EnvOffer(c, from, accept)
  \/ \E c \in Peers, from \in Peers : EnvAnswer(c, from)
  \/ \E c \in Peers, from \in Peers, n \in 1..(MaxCand + MaxDup) :
       EnvCandidateSeq(c, from, n)

TrickleSpec == Init /\ [][TrickleNext]_vars

\* The client of Spec on a socket that loses and regains its connection:
\* the steps that lead to an emission, and the ping timer.
RelayNext ==
  \/ \E c \in Peers, p \in Peers : StartCall(c, p)
  \/ \E c \in Peers : EndCall(c)
  \/ \E c \in Peers : Resume(c)
  \/ \E c \in Peers, k \in 1..MaxPC : OnIceCandidate(c, k)
  \/ \E c \in Peers, from \in Peers, accept \in BOOLEAN :
       EnvOffer(c, from, accept)
  \/ \E c \in Peers : PingTick(c)
  \/ \E c \in Peers : SocketDisconnect(c)
  \/ \E c \in Peers : SocketConnect(c)

RelaySpec == Init /\ [][RelayNext]_vars

\* The client of Spec as a callee whose remote audio element is asked to
\* play: the timeouts fire and a play() on an element with a source settles.
PlayNext ==
  \/ \E c \in Peers : EndCall(c)
  \/ \E c \in Peers : Resume(c)
  \/ \E c \in Peers, from \in Peers, accept \in BOOLEAN :
       EnvOffer(c, from, accept)
  \/ \E c \in Peers, ok \in BOOLEAN : PlaySettle(c, ok)
  \/ \E c \in Peers : PlayRetry(c)

PlaySpec ==
  /\ Init
  /\ [][PlayNext]_vars
  /\ WF_vars(\E c \in Peers : Resume(c))
  /\ WF_vars(\E c \in Peers, ok \in BOOLEAN : PlaySettle(c, ok))
  /\ WF_vars(\E c \in Peers : PlayRetry(c))

\* The ICE agent of connection k reports a state change on a path whose far
\* end is gone once it is lost: after 'disconnected' it does not come back.
PathChange(c, k, state) ==
  /\ c \in DOMAIN cl
  /\ k \in 1..Len(cl[c].pcs)
  /\ cl[c].pcs[k].iceConnectionState = "disconnected" => state = "failed"
  /\ IceConnectionStateChange(c, k, state)

\* The client of Spec as a callee whose caller hangs up without a word: the
\* user does nothing after accepting, the promises settle and the timers
\* keep ticking.
HangUpNext ==
  \/ \E c \in Peers, from \in Peers, accept \in BOOLEAN :
       EnvOffer(c, from, accept)
  \/ \E c \in Peers, from \in Peers : EnvCandidate(c, from)
  \/ \E c \in Peers : Resume(c)
  \/ \E c \in Peers, k \in 1..MaxPC, state \in IceStates :
       PathChange(c, k, state)
  \/ \E c \in Peers, k \in 1..MaxPC : StatsTick(c, k)

HangUpSpec ==
  /\ Init
  /\ [][HangUpNext]_vars
  /\ WF_vars(\E c \in Peers : Resume(c))
  /\ WF_vars(\E c \in Peers, k \in 1..MaxPC : StatsTick(c, k))

\* The module of socket.js loaded and Call not yet mounted: the socket
\* connects and the component mounts in either order.
MountInit ==
  /\ cl = [c \in {Me} |-> InitClient]
  /\ net = [c \in {Me} |-> <<>>]
  /\ out = NoOut

MountNext ==
  \/ \E c \in Peers : Mount(c)
  \/ \E c \in Peers : Unmount(c)
  \/ \E c \in Peers : SocketConnect(c)
  \/ \E c \in Peers : SocketDisconnect(c)
  \/ \E c \in Peers, userList \in Rosters : Users(c, userList)

MountSpec == MountInit /\ [][MountNext]_vars

\* The mounted component, its socket and the roster messages.
RosterInit ==
  /\ cl = [c \in {Me} |-> mount(InitClient)]
  /\ net = [c \in {Me} |-> <<>>]
  /\ out = NoOut

RosterNext ==
  \/ \E c \in Peers : SocketConnect(c)
  \/ \E c \in Peers : SocketDisconnect(c)
  \/ \E c \in Peers, userList \in Rosters : Users(c, userList)

RosterSpec == RosterInit /\ [][RosterNext]_vars

(***************************************************************************)
(* Properties                                                              *)
(***************************************************************************)

\* The Idle values of the call state of a client.
IdleFields(s) ==
  /\ s.peerConnectionRef = Null
  /\ s.localStreamRef = Null
  /\ s.remoteId = NoPeer
  /\ s.callStatus = "Ready to call"
  /\ s.iceState = ""
  /\ s.isCallerRef = FALSE

\* C6 - Teardown idempotence: in every reachable state, endCall leaves the
\* Idle values (peerConnectionRef and localStreamRef null, remoteId '',
\* callStatus 'Ready to call', iceState '', isCallerRef false), a second
\* endCall changes nothing more, and endCall on an Idle client changes
\* nothing at all.
TeardownIdempotent ==
  \A c \in DOMAIN cl :
    LET once == endCall(cl[c])
    IN /\ IdleFields(once)
       /\ endCall(once) = once
       /\ IdleFields(cl[c]) => once = cl[c]

\* C6 witness: endCall has torn down a session that held a connection and a
\* local stream, and the client is Idle.
TeardownHappened ==
  \E c \in DOMAIN cl :
    /\ IdleFields(cl[c])
    /\ \E k \in 1..Len(cl[c].pcs) : ~cl[c].pcs[k].open
    /\ \E m \in 1..Len(cl[c].streams) : ~cl[c].streams[m]

\* The connections of client state s that are created and not yet closed.
OpenPCs(s) == {k \in 1..Len(s.pcs) : s.pcs[k].open}

\* A session is active with peer x.
ActiveWith(s, x) == s.peerConnectionRef # Null /\ s.remoteId = x

\* The call state of a session, as seen by the user and the refs.
Session(s) ==
  <<s.peerConnectionRef, s.localStreamRef, s.remoteId, s.callStatus, s.pcs>>

\* C1 - Single active session: at most one connection created by
\* createPeerConnection is open at any time.
SingleActiveSession ==
  \A c \in DOMAIN cl : Cardinality(OpenPCs(cl[c])) <= 1

\* C2 - Rejection path: an inbound offer from y that arrives while a
\* session is active with a different peer x shows no prompt, creates no
\* connection and leaves the session with x unchanged.
RejectionPath ==
  [][\A c \in DOMAIN cl, x \in Peers, y \in Peers, accept \in BOOLEAN :
       (x # y /\ ActiveWith(cl[c], x) /\ EnvOffer(c, y, accept))
         => (~out'.prompt /\ Session(cl'[c]) = Session(cl[c]))]_vars

\* C3 - Candidate buffering: a remote candidate that arrives while a
\* session exists and before its remote description is set is kept by the
\* client for that connection, not dropped.
CandidateBuffering ==
  [][\A c \in DOMAIN cl, from \in Peers :
       (/\ cl[c].peerConnectionRef # Null
        /\ cl[c].pcs[cl[c].peerConnectionRef].remoteDescription = NoDesc
        /\ EnvCandidate(c, from))
         => cl'[c] # [cl[c] EXCEPT !.inbound = @ + 1]]_vars

\* Client c has an outgoing attempt to p in progress: it is the caller of a
\* session with p whose connection has no answer yet.
Calling(s, p) ==
  /\ ActiveWith(s, p)
  /\ s.isCallerRef
  /\ s.pcs[s.peerConnectionRef].remoteDescription = NoDesc

\* C4 - Glare determinism: when c and p are calling each other and c
\* receives p's offer while its own offer is in flight to p, no prompt is
\* shown and c is Caller afterwards exactly if its identifier is the larger
\* one ("A" < "B": A ends Callee, B ends Caller).
GlareDeterminism ==
  [][\A c \in Pair, p \in Pair, accept \in BOOLEAN :
       (/\ p # c
        /\ Calling(cl[c], p)
        /\ Calling(cl[p], c)
        /\ net[c] # <<>> /\ Head(net[c]).type = "offer"
        /\ net[p] # <<>> /\ Head(net[p]).type = "offer"
        /\ Deliver(c, accept))
         => (~out'.prompt /\ cl'[c].isCallerRef = (c = "B"))]_vars

\* The candidates connection k of client c gathers, in gathering order.
Gathered(c, k) == [n \in 1..MaxCand |-> Candidate(c, k, n)]

\* The basic call from A to B has finished signalling: each client has
\* created one connection, still open, each has acquired one stream, A is
\* the caller and holds B's answer, B is the callee and holds A's offer,
\* every candidate is gathered, nothing is suspended or in flight.
BasicCallSignalled ==
  /\ \A c \in Pair :
       /\ Len(cl[c].pcs) = 1 /\ cl[c].peerConnectionRef = 1
       /\ cl[c].streams = <<TRUE>> /\ cl[c].localStreamRef = 1
       /\ cl[c].tasks = EmptyBag
       /\ cl[c].pcs[1].gathered = MaxCand
       /\ net[c] = <<>>
  /\ cl["A"].isCallerRef /\ cl["A"].remoteId = "B"
  /\ cl["A"].pcs[1].localDescription = Offer("A", 1)
  /\ cl["A"].pcs[1].remoteDescription = Answer("B", 1)
  /\ ~cl["B"].isCallerRef /\ cl["B"].remoteId = "A"
  /\ cl["B"].pcs[1].remoteDescription = Offer("A", 1)
  /\ cl["B"].pcs[1].localDescription = Answer("B", 1)

\* C5 - Basic call completes: once the basic call has finished signalling,
\* the candidates each side gathered have reached the other side's
\* connection, in order.
BasicCallCompletes ==
  BasicCallSignalled =>
    /\ cl["A"].pcs[1].candidates = Gathered("B", 1)
    /\ cl["B"].pcs[1].candidates = Gathered("A", 1)

\* C7 - Inbound answer validity: an inbound answer is applied to the
\* connection only when the session has role Caller and is negotiating;
\* otherwise it is discarded and the session state is unchanged.
InboundAnswerValidity ==
  [][\A c \in DOMAIN cl, from \in Peers :
       EnvAnswer(c, from) =>
         IF /\ cl[c].peerConnectionRef # Null
            /\ cl[c].isCallerRef
            /\ cl[c].pcs[cl[c].peerConnectionRef].signalingState
                 = "have-local-offer"
         THEN TRUE
         ELSE cl'[c] = [cl[c] EXCEPT !.inbound = @ + 1]]_vars

\* C8 - AlreadyInCall: startCall(p) while a session is active with another
\* peer q creates no connection and leaves the session with q as it is.
AlreadyInCall ==
  [][\A c \in DOMAIN cl, p \in Peers, q \in Peers :
       (q # p /\ ActiveWith(cl[c], q) /\ StartCall(c, p))
         => Session(cl'[c]) = Session(cl[c])]_vars

\* C9 - Cancellation of superseded negotiation: when a suspended startCall
\* or handleIncomingCall resumes after its connection was ended or
\* replaced, it emits nothing, adds no track to the current connection and
\* leaves peerConnectionRef, localStreamRef and callStatus alone.
SupersededIsCancelled ==
  [][\A c \in DOMAIN cl :
       \A t \in DOMAIN cl[c].tasks :
         (/\ t.fn \in {"startCall", "handleIncomingCall"}
          /\ cl[c].peerConnectionRef # t.own
          /\ ResumeTask(c, t))
           => /\ out'.emits = <<>>
              /\ cl'[c].peerConnectionRef = cl[c].peerConnectionRef
              /\ cl'[c].localStreamRef = cl[c].localStreamRef
              /\ cl'[c].callStatus = cl[c].callStatus
              /\ cl[c].peerConnectionRef # Null =>
                   cl'[c].pcs[cl[c].peerConnectionRef].tracks
                     = cl[c].pcs[cl[c].peerConnectionRef].tracks]_vars

\* C10 - Local stream released on every exit path: in a quiescent Idle
\* state (no connection, nothing suspended) no acquired stream is live.
LocalStreamReleased ==
  \A c \in DOMAIN cl :
    (cl[c].peerConnectionRef = Null /\ cl[c].tasks = EmptyBag)
      => \A m \in 1..Len(cl[c].streams) : ~cl[c].streams[m]

\* C11 - Network-path failure tears down: when the ICE state of the current
\* connection is reported 'failed', the handler leaves the client Idle: that
\* connection closed and peerConnectionRef null, the local stream stopped
\* and localStreamRef null, remoteId '', callStatus 'Ready to call'.
PathFailureTearsDown ==
  [][\A c \in DOMAIN cl, k \in 1..MaxPC :
       (k = cl[c].peerConnectionRef /\ IceConnectionStateChange(c, k, "failed"))
         => /\ IdleFields(cl'[c])
            /\ ~cl'[c].pcs[k].open
            /\ cl[c].localStreamRef # Null =>
                 ~cl'[c].streams[cl[c].localStreamRef]]_vars

\* C11 witness: the only connection of the client was closed by its own
\* state-change handler, the stream is stopped and the client is Idle.
PathFailureTornDown ==
  /\ out.ev = "iceconnectionstatechange"
  /\ IdleFields(cl[Me])
  /\ cl[Me].pcs = <<ClosedPC>>
  /\ cl[Me].streams = <<FALSE>>

\* The session of the client of Spec is degraded / has left the degraded
\* state by recovery or by teardown.
Degraded == cl[Me].callStatus = "Disconnected - Reconnecting..."

Recovered == cl[Me].callStatus = "Connected" \/ IdleFields(cl[Me])

\* C12 - Degraded is bounded: once the status is 'Disconnected -
\* Reconnecting...', the session eventually returns to Connected or is torn
\* down to Idle, whatever the transport and the user do afterwards.
DegradedIsBounded == Degraded ~> Recovered

\* C13 - Connected means a usable path: callStatus is 'Connected' only if
\* the current connection's ICE state is 'connected' or 'completed'.
ConnectedMeansUsablePath ==
  \A c \in DOMAIN cl :
    cl[c].callStatus = "Connected"
      => /\ cl[c].peerConnectionRef # Null
         /\ cl[c].pcs[cl[c].peerConnectionRef].iceConnectionState
              \in {"connected", "completed"}

\* C14 - Media-acquisition failure is terminal for the attempt: when the
\* getUserMedia of a startCall or handleIncomingCall fails, nothing is
\* emitted, the function is not suspended again, the client is Idle and the
\* connection the attempt created is closed.
MediaFailureIsTerminal ==
  [][\A c \in DOMAIN cl :
       \A t \in DOMAIN cl[c].tasks :
         (/\ t.at = "getUserMedia"
          /\ ResumeTask(c, t)
          /\ cl'[c] = resume(c, [cl[c] EXCEPT !.tasks = Without(@, t)],
                             t, FALSE))
           => /\ out'.emits = <<>>
              /\ IdleFields(cl'[c])
              /\ ~cl'[c].pcs[t.own].open
              /\ \A u \in DOMAIN cl'[c].tasks :
                   ~(u.fn = t.fn /\ u.own = t.own)]_vars

CandidateWhileIdleDiscarded ==
  [][\A c \in DOMAIN cl, from \in Peers :
       (cl[c].peerConnectionRef = Null /\ EnvCandidate(c, from))
         => cl'[c] = [cl[c] EXCEPT !.inbound = @ + 1]]_vars

\* C16 witness: a candidate has just been handled by a client that has no
\* connection but shows an incoming call.
CandidateSeenWhileIdle ==
  /\ out.ev = "ice-candidate"
  /\ cl[Me].peerConnectionRef = Null
  /\ cl[Me].remoteId # NoPeer

CandidateErrorsTolerated ==
  [][\A c \in DOMAIN cl, from \in Peers :
       EnvCandidate(c, from)
         => /\ cl'[c].callStatus = cl[c].callStatus
            /\ cl'[c].remoteId = cl[c].remoteId
            /\ cl'[c].peerConnectionRef = cl[c].peerConnectionRef
            /\ cl'[c].localStreamRef = cl[c].localStreamRef
            /\ cl'[c].streams = cl[c].streams
            /\ OpenPCs(cl'[c]) = OpenPCs(cl[c])]_vars

\* C18 witness: the current connection has been handed the same candidate
\* twice and the session is still there.
DuplicateCandidateApplied ==
  /\ out.ev = "ice-candidate"
  /\ cl[Me].peerConnectionRef # Null
  /\ LET held == cl[Me].pcs[cl[Me].peerConnectionRef].candidates
     IN Len(held) = 2 /\ held[1] = held[2]

\* The entries of list other than id, in the order of list.
RECURSIVE Others(_, _)
Others(list, id) ==
  IF list = <<>> THEN <<>>
  ELSE IF Head(list) = id THEN Others(Tail(list), id)
  ELSE <<Head(list)>> \o Others(Tail(list), id)

\* C19 - Roster excludes self: after a 'users' message the displayed list is
\* exactly the roster entries other than the client's current socket.id, in
\* roster order, so its own identifier is not a callable user.
RosterExcludesSelf ==
  [][\A c \in DOMAIN cl, userList \in Rosters :
       Users(c, userList)
         => /\ cl'[c].users = Others(userList, cl[c].socket.id)
            /\ cl[c].socket.id \notin Range(cl'[c].users)]_vars

\* C19 witness: a roster was handled on the second connection of the
\* socket, under the new identifier; the displayed list holds the other
\* entries, the former identifier of the client among them.
RosterHandledAfterReconnect ==
  /\ out.ev = "users"
  /\ cl[Me].socket.id = "D"
  /\ cl[Me].users = <<"A", "B">>

\* C20 - No emission while the relay is unavailable: while the socket is
\* disconnected no handler hands an envelope to socket.emit, and none waits
\* in the socket for the next connection.
NoEmissionWhileDisconnected ==
  ~cl[Me].socket.connected
    => out.emits = <<>> /\ cl[Me].socket.sendBuffer = <<>>

\* The invocation of suspended function t has stopped with the step: it is
\* not suspended again and it has not run to its end.
Stopped(s, t) ==
  /\ ~(t.at = "setLocalDescription" /\ t.ok)
  /\ \A u \in DOMAIN s.tasks : ~(u.fn = t.fn /\ u.own = t.own)

\* C21 - Per-attempt failures resolve locally: when a step of startCall or
\* handleIncomingCall fails (the connection cannot be created, or an awaited
\* call fails and the function goes no further), that step emits nothing and
\* leaves the client Idle.
AttemptFailuresResolveLocally ==
  [][\A c \in DOMAIN cl :
       /\ \A p \in Peers :
            (StartCall(c, p) /\ cl'[c].peerConnectionRef = Null)
              => (out'.emits = <<>> /\ IdleFields(cl'[c]))
       /\ \A from \in Peers :
            (EnvOffer(c, from, TRUE) /\ cl'[c].peerConnectionRef = Null)
              => (out'.emits = <<>> /\ IdleFields(cl'[c]))
       /\ \A t \in DOMAIN cl[c].tasks :
            (/\ t.fn \in {"startCall", "handleIncomingCall"}
             /\ ResumeTask(c, t)
             /\ Stopped(cl'[c], t))
              => (out'.emits = <<>> /\ IdleFields(cl'[c]))]_vars

\* C21 witness: the only attempt of the client failed at an await before any
\* stream was acquired; its connection is closed and the client is Idle.
AttemptFailedAndResolved ==
  /\ out.ev = "resume"
  /\ IdleFields(cl[Me])
  /\ cl[Me].pcs = <<ClosedPC>>
  /\ cl[Me].streams = <<>>

\* C22 - Role matches the emitted envelope: an offer is emitted only while
\* isCallerRef is true and an answer only while it is false.
RoleMatchesEnvelope ==
  \A i \in 1..Len(out.emits) :
    LET e == out.emits[i]
    IN /\ e.type = "offer" => cl[e.from].isCallerRef
       /\ e.type = "answer" => ~cl[e.from].isCallerRef

\* C23 - Outgoing candidates are addressed to the session's peer: with no
\* offer ever received, remoteId is the user the current connection was
\* created to call, and a candidate of that connection is emitted to that
\* user.
CandidateAddressedToSessionPeer ==
  [][\A c \in DOMAIN cl, k \in 1..MaxPC :
       (/\ cl[c].inbound = 0
        /\ k = cl[c].peerConnectionRef
        /\ OnIceCandidate(c, k))
         => \A i \in 1..Len(out'.emits) :
              out'.emits[i].to = cl[c].remoteId]_vars

\* C24 - Candidates after the description are applied immediately and in
\* order: a candidate received while the current connection has its remote
\* description is applied in that step, after all those applied before.
CandidatesAppliedInOrder ==
  [][\A c \in DOMAIN cl, from \in Peers, n \in 1..(MaxCand + MaxDup) :
       (/\ cl[c].peerConnectionRef # Null
        /\ cl[c].pcs[cl[c].peerConnectionRef].open
        /\ cl[c].pcs[cl[c].peerConnectionRef].remoteDescription # NoDesc
        /\ EnvCandidateSeq(c, from, n))
         => cl'[c].pcs[cl[c].peerConnectionRef].candidates
              = Append(cl[c].pcs[cl[c].peerConnectionRef].candidates,
                       Candidate(from, 1, n))]_vars

\* C24 witness: the current connection holds the first and the second
\* candidate of one peer, in the order they were delivered.
TwoCandidatesInOrder ==
  /\ out.ev = "ice-candidate"
  /\ cl[Me].peerConnectionRef # Null
  /\ cl[Me].pcs[cl[Me].peerConnectionRef].candidates
       = <<Candidate("B", 1, 1), Candidate("B", 1, 2)>>

\* C25 - Peer is set once per attempt: an inbound offer that the user
\* declines while a session is active leaves remoteId as it is.
PeerSetOncePerAttempt ==
  [][\A c \in DOMAIN cl, from \in Peers :
       (cl[c].peerConnectionRef # Null /\ EnvOffer(c, from, FALSE))
         => cl'[c].remoteId = cl[c].remoteId]_vars

\* C26 - Declining leaves the client Idle: an inbound offer that arrives
\* while Idle and is declined leaves the client Idle, with remoteId '' and
\* callStatus 'Ready to call'.
DecliningLeavesIdle ==
  [][\A c \in DOMAIN cl, from \in Peers :
       (IdleFields(cl[c]) /\ EnvOffer(c, from, FALSE))
         => IdleFields(cl'[c])]_vars

\* The current session of s has emitted its offer or answer: its connection
\* has a local description and no setLocalDescription is awaited on it.
HasEmitted(s) ==
  /\ s.peerConnectionRef # Null
  /\ s.pcs[s.peerConnectionRef].open
  /\ s.pcs[s.peerConnectionRef].localDescription # NoDesc
  /\ \A u \in DOMAIN s.tasks :
       ~(u.at = "setLocalDescription" /\ u.pc = s.peerConnectionRef)

\* C27 - Local stream held while negotiating or connected: once the current
\* session has emitted its offer or answer, localStreamRef holds a live
\* stream whose tracks were added to the current connection.
LocalStreamHeld ==
  \A c \in DOMAIN cl :
    HasEmitted(cl[c])
      => /\ cl[c].localStreamRef # Null
         /\ cl[c].streams[cl[c].localStreamRef]
         /\ cl[c].localStreamRef \in cl[c].pcs[cl[c].peerConnectionRef].tracks

\* C27 witness: the session has emitted and was then reported connected.
StreamHeldWhileConnected ==
  /\ HasEmitted(cl[Me])
  /\ cl[Me].pcs[cl[Me].peerConnectionRef].iceConnectionState = "connected"
  /\ cl[Me].localStreamRef # Null

\* C28 - Negotiation step order: an envelope is emitted by startCall (an
\* offer) or handleIncomingCall (an answer) only for a description its
\* connection made and has been given as local description, with local
\* tracks added and, for an answer, a remote description applied; the
\* invocation emits once and is over.
NegotiationStepOrder ==
  [][\A c \in DOMAIN cl :
       \A t \in DOMAIN cl[c].tasks :
         (ResumeTask(c, t) /\ out'.emits # <<>>)
           => LET e == out'.emits[1]
                  p == cl[c].pcs[t.pc]
              IN /\ Len(out'.emits) = 1
                 /\ e.type = (IF t.fn = "startCall" THEN "offer" ELSE "answer")
                 /\ e.payload.type = e.type
                 /\ e.payload.by = <<c, t.pc>>
                 /\ p.localDescription # NoDesc
                 /\ p.tracks # {}
                 /\ \E m \in p.tracks : m \in 1..Len(cl[c].streams)
                 /\ e.type = "answer" => p.remoteDescription # NoDesc
                 /\ \A u \in DOMAIN cl'[c].tasks :
                      ~(u.fn = t.fn /\ u.own = t.own)]_vars

\* C28 witness: an accepted offer has just been answered.
AnswerEmitted ==
  /\ out.ev = "resume"
  /\ out.emits # <<>>
  /\ out.emits[1].type = "answer"
  /\ cl[Me].callStatus = "Connected"

\* C29 - Recovery without re-negotiation: when the current connection goes
\* from 'disconnected' back to 'connected', callStatus is 'Connected'
\* again, the connection and the local stream are kept, nothing is
\* suspended and no envelope is emitted.
RecoveryKeepsSession ==
  [][\A c \in DOMAIN cl, k \in 1..MaxPC, state \in {"connected", "completed"} :
       (/\ k = cl[c].peerConnectionRef
        /\ cl[c].pcs[k].iceConnectionState = "disconnected"
        /\ IceConnectionStateChange(c, k, state))
         => /\ cl'[c].callStatus = "Connected"
            /\ cl'[c].peerConnectionRef = k
            /\ cl'[c].pcs = [cl[c].pcs EXCEPT ![k].iceConnectionState
                                                = state]
            /\ cl'[c].localStreamRef = cl[c].localStreamRef
            /\ cl'[c].streams = cl[c].streams
            /\ cl'[c].tasks = cl[c].tasks
            /\ out'.emits = <<>>]_vars

\* C29 witness: the only connection has just left 'disconnected' for
\* 'connected' and the session is there, Connected.
RecoveredFromDisconnected ==
  /\ out.ev = "iceconnectionstatechange"
  /\ out.was = "disconnected"
  /\ Len(cl[Me].pcs) = 1
  /\ cl[Me].peerConnectionRef = 1
  /\ cl[Me].pcs[1].iceConnectionState = "connected"
  /\ cl[Me].localStreamRef # Null
  /\ cl[Me].callStatus = "Connected"

\* C30 - End call is always available: whenever peerConnectionRef or
\* localStreamRef is non-null, remoteId is non-empty, so the End Call
\* button is rendered.
EndCallAvailable ==
  \A c \in DOMAIN cl :
    (cl[c].peerConnectionRef # Null \/ cl[c].localStreamRef # Null)
      => cl[c].remoteId # NoPeer

\* C30 witness: a second session, its stream acquired, after the first
\* was closed.
SecondSessionHolding ==
  /\ Len(cl[Me].pcs) = 2
  /\ ~cl[Me].pcs[1].open
  /\ cl[Me].peerConnectionRef = 2
  /\ cl[Me].localStreamRef # Null
  /\ cl[Me].remoteId # NoPeer
\* C31 - Playback retry is bounded: the retry of the remote audio play()
\* started in ontrack stops: from some point on no retry timeout is
\* scheduled any more, however often play() is rejected.
PlaybackRetryStops ==
  <>[](\A c \in DOMAIN cl : cl[c].playTimers = 0)

\* C32 - Own identifier is learned: whenever the component is mounted and
\* the socket is connected, myId is the socket's current identifier,
\* whichever of the mount and the 'connect' event came first.  (Only the
\* 'connect' listener sets myId, in the event itself, so there is no later
\* step to wait for.)
OwnIdentifierLearned ==
  \A c \in DOMAIN cl :
    (cl[c].mounted /\ cl[c].socket.connected)
      => cl[c].myId = cl[c].socket.id

\* C38 - Listener registration is balanced: a mounted component has
\* exactly one handler registered for each of 'connect', 'users', 'offer',
\* 'answer' and 'ice-candidate' and exactly one ping interval, and an
\* unmounted component has none, after any sequence of mounts and unmounts.
ListenersBalanced ==
  \A c \in DOMAIN cl :
    LET n == IF cl[c].mounted THEN 1 ELSE 0
    IN /\ \A e \in Events : cl[c].listeners[e] = n
       /\ cl[c].pingIntervals = n

\* C38 witness: the mount effect has just run for the second time at least:
\* myId was learned by an earlier registration, which a cleanup removed.
MountedAgain ==
  /\ out.ev = "mount"
  /\ cl[Me].mounted
  /\ cl[Me].myId # NoPeer
  /\ cl[Me].listeners["connect"] = 1

\* C33 - Local candidates are sent: a candidate gathered by the connection
\* of a call started from Idle (the first connection the client creates,
\* while it is the current one) results in one ice-candidate envelope,
\* emitted to the session's peer.
LocalCandidatesSent ==
  [][\A c \in DOMAIN cl :
       (/\ Len(cl[c].pcs) = 1
        /\ cl[c].peerConnectionRef = 1
        /\ OnIceCandidate(c, 1))
         => /\ Len(out'.emits) = 1
            /\ out'.emits[1].type = "ice-candidate"
            /\ cl[c].inbound = 0 => out'.emits[1].to = cl[c].remoteId]_vars

\* C35 - Answers are matched to the called peer: once a caller that has
\* received nothing yet has emitted its offer to remoteId, an answer from
\* any other peer changes neither the connections nor callStatus.
AnswerFromCalledPeer ==
  [][\A c \in DOMAIN cl, from \in Peers :
       (/\ cl[c].inbound = 0
        /\ cl[c].peerConnectionRef # Null
        /\ cl[c].pcs[cl[c].peerConnectionRef].localDescription.type = "offer"
        /\ \A u \in DOMAIN cl[c].tasks : u.fn # "startCall"
        /\ from # cl[c].remoteId
        /\ EnvAnswer(c, from))
         => /\ cl'[c].pcs = cl[c].pcs
            /\ cl'[c].callStatus = cl[c].callStatus]_vars

\* C34 - Events of a superseded connection are ignored: an ICE state
\* change reported by a connection that is not the one in peerConnectionRef
\* changes neither callStatus nor iceState and leaves the current session
\* as it is.
SupersededEventsIgnored ==
  [][\A c \in DOMAIN cl, k \in 1..MaxPC, state \in IceStates :
       (k # cl[c].peerConnectionRef /\ IceConnectionStateChange(c, k, state))
         => /\ cl'[c].callStatus = cl[c].callStatus
            /\ cl'[c].iceState = cl[c].iceState
            /\ cl'[c].peerConnectionRef = cl[c].peerConnectionRef
            /\ cl'[c].localStreamRef = cl[c].localStreamRef]_vars

\* The stats intervals of client s that are running.
RunningStatsIntervals(s) ==
  {k \in 1..Len(s.pcs) : s.pcs[k].statsInterval}

\* C37 - Stats timers do not leak: exactly one stats interval runs while
\* peerConnectionRef is non-null and none while it is null.
StatsTimersDoNotLeak ==
  \A c \in DOMAIN cl :
    Cardinality(RunningStatsIntervals(cl[c]))
      = IF cl[c].peerConnectionRef # Null THEN 1 ELSE 0

\* The transport of the current session has reported 'disconnected' for
\* a path whose far end has ended the call.
HungUpOn ==
  /\ cl[Me].peerConnectionRef # Null
  /\ cl[Me].pcs[cl[Me].peerConnectionRef].iceConnectionState = "disconnected"

\* C36 - The other side notices a hang-up: once the transport has reported
\* 'disconnected' for the path the far end closed, the client eventually
\* is Idle again (peerConnectionRef null, remoteId '', callStatus 'Ready to
\* call') without an action of the user.
OtherSideNoticesHangUp == HungUpOn ~> IdleFields(cl[Me])

====
